---- MODULE Spec2Model ----
(***************************************************************************)
(* Model of the open-addressing hash table of cds (htable.c / htable.h)    *)
(* on a 64-bit platform (ULONG_MAX == 0xffffffffffffffff), driven through  *)
(* the interface of htable_test.c: keys are ints, an entry e matches key k *)
(* iff e * e = k.                                                          *)
(***************************************************************************)
EXTENDS Integers, Sequences, FiniteSets, TLC

(***************************************************************************)
(* Bounds of the model.                                                    *)
(***************************************************************************)
\* keys of the general specification are the squares of 0 .. NKeys - 1
NKeys == 3
\* the callers offer the entries -NAlt .. -1 besides the non-negative ones
NAlt == 1
\* largest capacity a call of htable_resize asks for
MaxReq == 7
\* largest number N of keys per phase in the phased runs (insert N keys,
\* delete them, insert N new keys)
NSeq == 7
\* largest shift of the tables whose probe sequences are enumerated
MaxShift == 5
\* keys of the runs that call htable_enter_unsafe: the squares of
\* 0 .. NRaw - 1
NRaw == 2
\* largest number of calls made while a record that htable_enter_unsafe
\* claimed is left unwritten
MaxRaw == 1

(***************************************************************************)
(* Program constants.                                                      *)
(***************************************************************************)
HBUCKET_EMPTY == 0
HBUCKET_TOMB == 1
HBUCKET_USED == 2
HTABLE_BITS == 64
HTABLE_SHIFT_MIN == 3
\* 0x93c467e37db0c7a3 as four 16-bit limbs, least significant first
HTABLE_MULT == <<51107, 32176, 26595, 37828>>
ENOENT == 2
ENOMEM == 12
EEXIST == 17
EINVAL == 22
ENOSPC == 28
\* a NULL pointer; a non-NULL record pointer is modelled by its slot index
\* (data + idx * inc) within the current data region
NULL == -1
\* content of bytes that were allocated and never written
GARBAGE == -99

Pow2(n) == 2 ^ n
HTABLE_SIZE(shift) == Pow2(shift)
HTABLE_CAP(shift) == Pow2(shift - 2) * 3

(***************************************************************************)
(* The caller's interface (struct htable_interface).  Hasher "ident" is    *)
(* the one of htable_test.c (it returns 0 and 1 for the keys 0 and 1);     *)
(* "const" is a constant hash function that returns 1, also consistent     *)
(* with comp.                                                              *)
(***************************************************************************)
Hashers == {"ident", "const"}

hash(hasher, key, seed) ==
    CASE hasher = "ident" -> key
      [] hasher = "const" -> 1

\* comp returns 0 iff the entry matches the key
comp(key, entry) == IF entry * entry # key THEN 1 ELSE 0

(***************************************************************************)
(* ((hash) * HTABLE_MULT) >> (HTABLE_BITS - shift): the top `shift` bits   *)
(* of the product modulo 2^64, computed on 16-bit limbs (hash < 2^15,      *)
(* shift <= 16).                                                           *)
(***************************************************************************)
MulLimb(h, m, carry) == h * m + (carry \div 65536)

ProbeStart(h, shift) ==
    (MulLimb(h, HTABLE_MULT[4],
             MulLimb(h, HTABLE_MULT[3],
                     MulLimb(h, HTABLE_MULT[2],
                             MulLimb(h, HTABLE_MULT[1], 0)))) % 65536)
        \div Pow2(16 - shift)

\* a probe that advances by twice the step number
ProbeNext_twice(idx, i, mask) ==
    IF mask = -1 THEN idx + i ELSE (idx + 2 * i) % (mask + 1)

\* ++ht__i, idx = (idx + ht__i) & mask, with mask = 2^shift - 1 or -1
ProbeNext(idx, i, mask) ==
    IF mask = -1 THEN idx + i ELSE (idx + i) % (mask + 1)

table_empty == [i \in 0 .. (Pow2(HTABLE_SHIFT_MIN) - 1) |-> HBUCKET_EMPTY]

(***************************************************************************)
(* Outcomes that are not return values: a failed assert() aborts the       *)
(* process (the Makefile leaves NDEBUG undefined), and a probe loop that   *)
(* has visited every slot without reaching a terminating one never ends.   *)
(***************************************************************************)
ABORT == -1000
HANG == -1001

\* a create that sets mask to the size of table_empty less one
htable_create_mask(inc, seed, hasher) ==
    IF ~(inc > 0) THEN ABORT ELSE
    [ data   |-> << >>,
      alloc  |-> FALSE,
      table  |-> table_empty,
      inc    |-> inc,
      len    |-> 0,
      cap    |-> 0,
      mask   |-> Pow2(HTABLE_SHIFT_MIN) - 1,
      shift  |-> HTABLE_SHIFT_MIN,
      seed   |-> seed,
      hasher |-> hasher ]

\* assert(inc > 0): the call aborts, and there is no table
htable_create(inc, seed, hasher) ==
    IF ~(inc > 0) THEN ABORT ELSE
    [ data   |-> << >>,
      alloc  |-> FALSE,
      table  |-> table_empty,
      inc    |-> inc,
      len    |-> 0,
      cap    |-> 0,
      mask   |-> -1,
      shift  |-> HTABLE_SHIFT_MIN,
      seed   |-> seed,
      hasher |-> hasher ]

\* a destroy that leaves shift as it is
htable_destroy_shift(ht) ==
    [ht EXCEPT !.table = table_empty, !.alloc = FALSE, !.data = << >>,
               !.mask = -1, !.len = 0, !.cap = 0]

\* a destroy that leaves len as it is
htable_destroy_len(ht) ==
    [ht EXCEPT !.table = table_empty, !.alloc = FALSE, !.data = << >>,
               !.mask = -1, !.shift = HTABLE_SHIFT_MIN, !.cap = 0]

htable_destroy(ht) ==
    [ht EXCEPT !.table = table_empty, !.alloc = FALSE, !.data = << >>,
               !.mask = -1, !.shift = HTABLE_SHIFT_MIN, !.len = 0, !.cap = 0]

\* probe loop of htable_rehash (htable.c:136-144): the slot of the new table
\* that receives a record of stored hash h
RECURSIVE rehash_probe(_, _, _, _)
rehash_probe(tab, mask, idx, i) ==
    IF i > mask THEN HANG
    ELSE IF tab[idx] = HBUCKET_EMPTY THEN idx
    ELSE rehash_probe(tab, mask, ProbeNext(idx, i + 1, mask), i + 1)

\* htnew.table[i].hash = ht->table[j].hash and the memcpy of the record
\* a copy that takes the record from the slot index of the new table
rehash_put_from(new, ht, j, i) ==
    IF i = HANG THEN [new EXCEPT !.hang = TRUE]
    ELSE [new EXCEPT !.table[i] = ht.table[j],
                     !.data[i] = ht.data[i % (ht.mask + 1)]]

rehash_put(new, ht, j, i) ==
    IF i = HANG THEN [new EXCEPT !.hang = TRUE]
    ELSE [new EXCEPT !.table[i] = ht.table[j], !.data[i] = ht.data[j]]

\* a copy loop that carries the tombstones over as well
RECURSIVE rehash_copy_tomb(_, _, _, _, _)
rehash_copy_tomb(new, ht, mask, shift, j) ==
    IF j > ht.mask \/ new.hang THEN new
    ELSE IF ht.table[j] # HBUCKET_EMPTY THEN
        rehash_copy_tomb(rehash_put(new, ht, j,
                                    rehash_probe(new.table, mask,
                                                 ProbeStart(ht.table[j], shift), 0)),
                         ht, mask, shift, j + 1)
    ELSE rehash_copy_tomb(new, ht, mask, shift, j + 1)

\* loop over the old slots j = 0 .. ht->mask of htable_rehash (htable.c:133-146)
RECURSIVE rehash_copy(_, _, _, _, _)
rehash_copy(new, ht, mask, shift, j) ==
    IF j > ht.mask \/ new.hang THEN new
    ELSE IF ht.table[j] >= HBUCKET_USED THEN
        rehash_copy(rehash_put(new, ht, j,
                               rehash_probe(new.table, mask,
                                            ProbeStart(ht.table[j], shift), 0)),
                    ht, mask, shift, j + 1)
    ELSE rehash_copy(new, ht, mask, shift, j + 1)

\* malloc(size * (sizeof(htnew.table[0]) + inc)) and the loop that marks
\* every slot EMPTY (htable.c:118-131)
rehash_alloc(size) ==
    [table |-> [j \in 0 .. size - 1 |-> HBUCKET_EMPTY],
     data  |-> [j \in 0 .. size - 1 |-> GARBAGE],
     hang  |-> FALSE]

\* a rehash that leaves len of the new table at 0
rehash_swap_nolen(ht, shift, new) ==
    IF new.hang THEN [err |-> HANG, ht |-> ht]
    ELSE [err |-> 0,
          ht  |-> [htable_create(ht.inc, ht.seed, ht.hasher) EXCEPT
                     !.table = new.table,
                     !.alloc = TRUE,
                     !.data  = new.data,
                     !.cap   = HTABLE_CAP(shift) - ht.len,
                     !.mask  = HTABLE_SIZE(shift) - 1,
                     !.shift = shift]]

\* htnew.len, htnew.cap, htable_destroy(ht) and *ht = htnew (htable.c:147-152)
rehash_swap(ht, shift, new) ==
    IF new.hang THEN [err |-> HANG, ht |-> ht]
    ELSE [err |-> 0,
          ht  |-> [htable_create(ht.inc, ht.seed, ht.hasher) EXCEPT
                     !.table = new.table,
                     !.alloc = TRUE,
                     !.data  = new.data,
                     !.cap   = HTABLE_CAP(shift) - ht.len,
                     !.mask  = HTABLE_SIZE(shift) - 1,
                     !.shift = shift,
                     !.len   = ht.len]]

\* a rehash that frees the old regions before it allocates the new ones
htable_rehash_freed(ht, shift, ok) ==
    IF ~(shift >= 2 /\ shift <= HTABLE_BITS - 1) \/ HTABLE_CAP(shift) < ht.len
    THEN [err |-> ABORT, ht |-> ht]
    ELSE IF ~ok THEN [err |-> -ENOMEM, ht |-> htable_destroy(ht)]
    ELSE rehash_swap(ht, shift,
                     rehash_copy(rehash_alloc(HTABLE_SIZE(shift)), ht,
                                 HTABLE_SIZE(shift) - 1, shift, 0))

\* ok: whether malloc returns memory
htable_rehash(ht, shift, ok) ==
    IF ~(shift >= 2 /\ shift <= HTABLE_BITS - 1) \/ HTABLE_CAP(shift) < ht.len
    THEN [err |-> ABORT, ht |-> ht]
    ELSE IF ~ok THEN [err |-> -ENOMEM, ht |-> ht]
    ELSE rehash_swap(ht, shift,
                     rehash_copy(rehash_alloc(HTABLE_SIZE(shift)), ht,
                                 HTABLE_SIZE(shift) - 1, shift, 0))

\* for (; HTABLE_CAP(shift) < cap; shift++);
RECURSIVE resize_shift(_, _)
resize_shift(shift, cap) ==
    IF HTABLE_CAP(shift) < cap THEN resize_shift(shift + 1, cap) ELSE shift

\* the result of a call that ends with return htable_rehash(...)
Rehashed(r) == [err |-> r.err, ht |-> r.ht, rehashed |-> r.err = 0]

\* a resize that rehashes whatever the shift it arrives at
resize_to_always(ht, shift, ok) == Rehashed(htable_rehash(ht, shift, ok))

\* return shift != ht->shift ? htable_rehash(ht, shift) : 0;
resize_to(ht, shift, ok) ==
    IF shift # ht.shift THEN Rehashed(htable_rehash(ht, shift, ok))
    ELSE [err |-> 0, ht |-> ht, rehashed |-> FALSE]

\* a resize that refuses a request equal to len
htable_resize_strict(ht, cap, ok) ==
    IF cap <= 0 THEN [err |-> ABORT, ht |-> ht, rehashed |-> FALSE]
    ELSE IF ht.len < cap THEN
        resize_to(ht, resize_shift(IF HTABLE_CAP(ht.shift) <= cap
                                   THEN ht.shift ELSE HTABLE_SHIFT_MIN, cap), ok)
    ELSE [err |-> -ENOSPC, ht |-> ht, rehashed |-> FALSE]

\* a resize that starts its search one step below the minimum shift
htable_resize_low(ht, cap, ok) ==
    IF cap <= 0 THEN [err |-> ABORT, ht |-> ht, rehashed |-> FALSE]
    ELSE IF ht.len <= cap THEN
        resize_to(ht, resize_shift(IF HTABLE_CAP(ht.shift) <= cap
                                   THEN ht.shift ELSE HTABLE_SHIFT_MIN - 1,
                                   cap), ok)
    ELSE [err |-> -ENOSPC, ht |-> ht, rehashed |-> FALSE]

htable_resize(ht, cap, ok) ==
    IF cap <= 0 THEN [err |-> ABORT, ht |-> ht, rehashed |-> FALSE]
    ELSE IF ht.len <= cap THEN
        resize_to(ht, resize_shift(IF HTABLE_CAP(ht.shift) <= cap
                                   THEN ht.shift ELSE HTABLE_SHIFT_MIN, cap), ok)
    ELSE [err |-> -ENOSPC, ht |-> ht, rehashed |-> FALSE]

\* a hash that is stored as the hasher returns it
hash_floor_raw(h) == h

\* hash >= HBUCKET_USED ? hash : HBUCKET_USED
hash_floor(h) == IF h >= HBUCKET_USED THEN h ELSE HBUCKET_USED

ht_hashof(ht, key) == hash_floor(hash(ht.hasher, key, ht.seed))

\* an equality test that takes a nonzero result of comp for a match
ht_isequal_inverted(ht, idx, h, key) ==
    ht.table[idx] = h /\ comp(key, ht.data[idx]) # 0

\* an equality test that compares the stored hash only
ht_isequal_hash(ht, idx, h, key) == ht.table[idx] = h

ht_isequal(ht, idx, h, key) ==
    ht.table[idx] = h /\ comp(key, ht.data[idx]) = 0

\* a probe that charges the budget when it finds the key present
RECURSIVE enter_probe_charge(_, _, _, _, _, _)
enter_probe_charge(ht, h, key, idx, i, j) ==
    IF i >= HTABLE_SIZE(ht.shift) THEN [err |-> HANG, ret |-> NULL, ht |-> ht]
    ELSE IF ht.table[idx] = HBUCKET_EMPTY THEN
        [err |-> 0, ret |-> IF j < 0 THEN idx ELSE j,
         ht  |-> [ht EXCEPT !.cap = IF j < 0 THEN @ - 1 ELSE @,
                            !.table[IF j < 0 THEN idx ELSE j] = h,
                            !.len = @ + 1]]
    ELSE IF ht.table[idx] = HBUCKET_TOMB THEN
        enter_probe_charge(ht, h, key, ProbeNext(idx, i + 1, ht.mask), i + 1,
                           IF j < 0 THEN idx ELSE j)
    ELSE IF ht_isequal(ht, idx, h, key) THEN
        [err |-> -EEXIST, ret |-> idx, ht |-> [ht EXCEPT !.cap = @ - 1]]
    ELSE enter_probe_charge(ht, h, key, ProbeNext(idx, i + 1, ht.mask), i + 1, j)

\* a probe that claims the EMPTY slot even when it has passed a tombstone
RECURSIVE enter_probe_fresh(_, _, _, _, _, _)
enter_probe_fresh(ht, h, key, idx, i, j) ==
    IF i >= HTABLE_SIZE(ht.shift) THEN [err |-> HANG, ret |-> NULL, ht |-> ht]
    ELSE IF ht.table[idx] = HBUCKET_EMPTY THEN
        [err |-> 0, ret |-> idx,
         ht  |-> [ht EXCEPT !.cap = @ - 1, !.table[idx] = h, !.len = @ + 1]]
    ELSE IF ht.table[idx] = HBUCKET_TOMB THEN
        enter_probe_fresh(ht, h, key, ProbeNext(idx, i + 1, ht.mask), i + 1,
                          IF j < 0 THEN idx ELSE j)
    ELSE IF ht_isequal(ht, idx, h, key) THEN
        [err |-> -EEXIST, ret |-> idx, ht |-> ht]
    ELSE enter_probe_fresh(ht, h, key, ProbeNext(idx, i + 1, ht.mask), i + 1, j)

\* a probe that claims EMPTY slots without charging the budget
RECURSIVE enter_probe_free(_, _, _, _, _, _)
enter_probe_free(ht, h, key, idx, i, j) ==
    IF i >= HTABLE_SIZE(ht.shift) THEN [err |-> HANG, ret |-> NULL, ht |-> ht]
    ELSE IF ht.table[idx] = HBUCKET_EMPTY THEN
        [err |-> 0, ret |-> IF j < 0 THEN idx ELSE j,
         ht  |-> [ht EXCEPT !.table[IF j < 0 THEN idx ELSE j] = h,
                            !.len = @ + 1]]
    ELSE IF ht.table[idx] = HBUCKET_TOMB THEN
        enter_probe_free(ht, h, key, ProbeNext(idx, i + 1, ht.mask), i + 1,
                         IF j < 0 THEN idx ELSE j)
    ELSE IF ht_isequal(ht, idx, h, key) THEN
        [err |-> -EEXIST, ret |-> idx, ht |-> ht]
    ELSE enter_probe_free(ht, h, key, ProbeNext(idx, i + 1, ht.mask), i + 1, j)

\* probe loop of htable_enter_unsafe (htable.c:203-220)
RECURSIVE enter_probe(_, _, _, _, _, _)
enter_probe(ht, h, key, idx, i, j) ==
    IF i >= HTABLE_SIZE(ht.shift) THEN [err |-> HANG, ret |-> NULL, ht |-> ht]
    ELSE IF ht.table[idx] = HBUCKET_EMPTY THEN
        [err |-> 0, ret |-> IF j < 0 THEN idx ELSE j,
         ht  |-> [ht EXCEPT !.cap = IF j < 0 THEN @ - 1 ELSE @,
                            !.table[IF j < 0 THEN idx ELSE j] = h,
                            !.len = @ + 1]]
    ELSE IF ht.table[idx] = HBUCKET_TOMB THEN
        enter_probe(ht, h, key, ProbeNext(idx, i + 1, ht.mask), i + 1,
                    IF j < 0 THEN idx ELSE j)
    ELSE IF ht_isequal(ht, idx, h, key) THEN
        [err |-> -EEXIST, ret |-> idx, ht |-> ht]
    ELSE enter_probe(ht, h, key, ProbeNext(idx, i + 1, ht.mask), i + 1, j)

\* a rehash on exhausted budget that never grows the table
enter_shift_same(ht) == ht.shift

\* a rehash on exhausted budget that halves a table less than half full
enter_shift_shrink(ht) ==
    ht.shift + (IF ht.len > HTABLE_CAP(ht.shift) \div 2 THEN 1 ELSE -1)

\* a rehash on exhausted budget that grows the table when it is half full
enter_shift_half(ht) ==
    ht.shift + (IF ht.len >= HTABLE_CAP(ht.shift) \div 2 THEN 1 ELSE 0)

\* a rehash on exhausted budget that always grows the table by one step
enter_shift_grow(ht) == ht.shift + 1

\* a rehash on exhausted budget that grows a table over half full by two steps
enter_shift_jump(ht) ==
    ht.shift + (IF ht.len > HTABLE_CAP(ht.shift) \div 2 THEN 2 ELSE 0)

enter_shift(ht) ==
    ht.shift + (IF ht.len > HTABLE_CAP(ht.shift) \div 2 THEN 1 ELSE 0)

\* the probe of htable_enter_unsafe, started with the floored hash h
enter_hashed(ht, h, key) ==
    enter_probe(ht, h, key, ProbeStart(h, ht.shift), 0, -1)

\* an insert that probes the table it has when its rehash failed
enter_rehashed_probe(r, key, rehashed) ==
    [rehashed |-> rehashed /\ r.err = 0]
        @@ enter_hashed(r.ht, ht_hashof(r.ht, key), key)

\* htable_enter_unsafe after its rehash step returned r
enter_rehashed(r, key, rehashed) ==
    IF r.err # 0
    THEN [err |-> r.err, ret |-> NULL, ht |-> r.ht, rehashed |-> FALSE]
    ELSE [rehashed |-> rehashed] @@ enter_hashed(r.ht, ht_hashof(r.ht, key), key)

htable_enter_unsafe(ht, key, ok) ==
    enter_rehashed(IF ht.cap = 0 THEN htable_rehash(ht, enter_shift(ht), ok)
                   ELSE [err |-> 0, ht |-> ht],
                   key, ht.cap = 0)

\* an insert that leaves the record of the new slot as it finds it
store_skip(ht, e, entry) == ht

\* memmove(e, entry, ht->inc) through the returned pointer
store(ht, e, entry) == [ht EXCEPT !.data[e] = entry]

\* a copy of the entry made whenever a pointer comes back
enter_copy_always(r, entry) ==
    IF r.ret >= 0 THEN [r EXCEPT !.ht = store(r.ht, r.ret, entry)] ELSE r

\* if (*err == 0) memmove(e, entry, ht->inc); return e;
enter_copy(r, entry) ==
    IF r.err = 0 THEN [r EXCEPT !.ht = store(r.ht, r.ret, entry)] ELSE r

\* an insert that compares the entry with the key after it has inserted
htable_enter_late(ht, key, entry, ok) ==
    IF comp(key, entry) # 0
    THEN [err |-> -EINVAL, ret |-> NULL,
          ht |-> htable_enter_unsafe(ht, key, ok).ht, rehashed |-> FALSE]
    ELSE enter_copy(htable_enter_unsafe(ht, key, ok), entry)

\* an insert that copies the entry over the record of a key that is present
htable_enter_overwrite(ht, key, entry, ok) ==
    IF comp(key, entry) # 0
    THEN [err |-> -EINVAL, ret |-> NULL, ht |-> ht, rehashed |-> FALSE]
    ELSE enter_copy_always(htable_enter_unsafe(ht, key, ok), entry)

htable_enter(ht, key, entry, ok) ==
    IF comp(key, entry) # 0
    THEN [err |-> -EINVAL, ret |-> NULL, ht |-> ht, rehashed |-> FALSE]
    ELSE enter_copy(htable_enter_unsafe(ht, key, ok), entry)

\* a probe that a TOMB slot ends as an EMPTY slot does
RECURSIVE find_probe_stop(_, _, _, _, _)
find_probe_stop(ht, h, key, idx, i) ==
    IF i >= HTABLE_SIZE(ht.shift) THEN HANG
    ELSE IF ht.table[idx] \in {HBUCKET_EMPTY, HBUCKET_TOMB} THEN NULL
    ELSE IF ht_isequal(ht, idx, h, key) THEN idx
    ELSE find_probe_stop(ht, h, key, ProbeNext(idx, i + 1, ht.mask), i + 1)

\* probe loop of htable_find and htable_delete: the slot holding key, NULL
\* if an EMPTY slot ends the probe first
RECURSIVE find_probe(_, _, _, _, _)
find_probe(ht, h, key, idx, i) ==
    IF i >= HTABLE_SIZE(ht.shift) THEN HANG
    ELSE IF ht.table[idx] = HBUCKET_EMPTY THEN NULL
    ELSE IF ht.table[idx] = HBUCKET_TOMB THEN
        find_probe(ht, h, key, ProbeNext(idx, i + 1, ht.mask), i + 1)
    ELSE IF ht_isequal(ht, idx, h, key) THEN idx
    ELSE find_probe(ht, h, key, ProbeNext(idx, i + 1, ht.mask), i + 1)

find_hashed(ht, h, key) == find_probe(ht, h, key, ProbeStart(h, ht.shift), 0)

htable_find(ht, key) == find_hashed(ht, ht_hashof(ht, key), key)

\* a delete that forgets len
delete_at_nolen(ht, i) ==
    IF i < 0 THEN [ret |-> i, ht |-> ht]
    ELSE [ret |-> i, ht |-> [ht EXCEPT !.table[i] = HBUCKET_TOMB]]

\* a delete that marks the slot EMPTY instead of TOMB
delete_at_empty(ht, i) ==
    IF i < 0 THEN [ret |-> i, ht |-> ht]
    ELSE [ret |-> i,
          ht |-> [ht EXCEPT !.table[i] = HBUCKET_EMPTY, !.len = @ - 1]]

\* a delete that gives the budget of the slot back
delete_at_refund(ht, i) ==
    IF i < 0 THEN [ret |-> i, ht |-> ht]
    ELSE [ret |-> i,
          ht  |-> [ht EXCEPT !.table[i] = HBUCKET_TOMB, !.len = @ - 1,
                             !.cap = @ + 1]]

\* htable_delete once its probe has ended at slot i (or at an EMPTY slot)
delete_at(ht, i) ==
    IF i < 0 THEN [ret |-> i, ht |-> ht]
    ELSE [ret |-> i,
          ht  |-> [ht EXCEPT !.table[i] = HBUCKET_TOMB, !.len = @ - 1]]

htable_delete(ht, key) == delete_at(ht, find_hashed(ht, ht_hashof(ht, key), key))

\* a delete through a pointer that does not look at the marker
htable_delete_unsafe_any(ht, i) ==
    [err |-> 0, ht |-> [ht EXCEPT !.table[i] = HBUCKET_TOMB, !.len = @ - 1]]

\* a delete through a pointer that marks the slot EMPTY instead of TOMB
htable_delete_unsafe_empty(ht, i) ==
    IF ht.table[i] >= HBUCKET_USED
    THEN [err |-> 0,
          ht  |-> [ht EXCEPT !.table[i] = HBUCKET_EMPTY, !.len = @ - 1]]
    ELSE [err |-> -ENOENT, ht |-> ht]

\* a delete through a pointer that takes a TOMB slot for a USED one
htable_delete_unsafe_tomb(ht, i) ==
    IF ht.table[i] # HBUCKET_EMPTY
    THEN [err |-> 0,
          ht  |-> [ht EXCEPT !.table[i] = HBUCKET_TOMB, !.len = @ - 1]]
    ELSE [err |-> -ENOENT, ht |-> ht]

\* entry designates slot i of the current data region
htable_delete_unsafe(ht, i) ==
    IF ht.table[i] >= HBUCKET_USED
    THEN [err |-> 0,
          ht  |-> [ht EXCEPT !.table[i] = HBUCKET_TOMB, !.len = @ - 1]]
    ELSE [err |-> -ENOENT, ht |-> ht]

htable_len(ht) == ht.len

\* a walk that skips the EMPTY slots only
RECURSIVE htable_walk_tomb(_, _)
htable_walk_tomb(ht, j) ==
    IF j > ht.mask THEN << >>
    ELSE IF ht.table[j] # HBUCKET_EMPTY
    THEN <<j>> \o htable_walk_tomb(ht, j + 1)
    ELSE htable_walk_tomb(ht, j + 1)

\* the slots htable_walk calls action on, in call order
RECURSIVE htable_walk(_, _)
htable_walk(ht, j) ==
    IF j > ht.mask THEN << >>
    ELSE IF ht.table[j] >= HBUCKET_USED THEN <<j>> \o htable_walk(ht, j + 1)
    ELSE htable_walk(ht, j + 1)

\* a yield that looks at the slot under the cursor only
htable_yield_stop(ht, j) ==
    IF j > ht.mask THEN NULL
    ELSE IF ht.table[j] >= HBUCKET_USED THEN j
    ELSE NULL

\* the slot whose record htable_yield returns (and stores in *iter), or NULL
RECURSIVE htable_yield(_, _)
htable_yield(ht, j) ==
    IF j > ht.mask THEN NULL
    ELSE IF ht.table[j] >= HBUCKET_USED THEN j
    ELSE htable_yield(ht, j + 1)

\* HTABLE_FOREACH: the slots the loop body runs on, with the cursor at idx
\* (the loop starts at 0 and steps past each slot htable_yield gave)
RECURSIVE foreach_from(_, _)
RECURSIVE foreach_next(_, _)
foreach_from(ht, idx) == foreach_next(ht, htable_yield(ht, idx))

foreach_next(ht, p) ==
    IF p = NULL THEN << >> ELSE <<p>> \o foreach_from(ht, p + 1)

HTABLE_FOREACH(ht) == foreach_from(ht, 0)

(***************************************************************************)
(* State: the table, the outcome of the last call, and the map from each   *)
(* key to the entry stored when it was entered (empty set: not entered, or *)
(* deleted since).  raw counts the calls made while a record claimed by   *)
(* htable_enter_unsafe is left unwritten.  pc, nseq and shift1 drive the   *)
(* phased runs; probe is the position of one run of HTABLE_PROBE_LOOP that *)
(* is followed step by step.                                               *)
(***************************************************************************)
VARIABLES ht, last, amap, raw, pc, nseq, shift1, probe

vars == <<ht, last, amap, raw, pc, nseq, shift1, probe>>

Root(k) == CHOOSE r \in 0 .. k : r * r = k
KeyOf(entry) == entry * entry
Keys == {i * i : i \in 0 .. NKeys - 1}
SeqKeys == {i * i : i \in 0 .. 2 * NSeq - 1}
\* the entries the phased runs write
SeqEntries == {Root(k) : k \in SeqKeys}
\* the entries the callers offer that match key k, and one that does not
Matching(k) == {e \in {Root(k), -Root(k)} : e >= -NAlt}
Templates(k) == Matching(k) \cup {Root(k) + 1}

(***************************************************************************)
(* malloc does not initialise the data region, and htable_enter_unsafe     *)
(* returns the pointer to the slot it claims without writing the record.   *)
(* The bytes of a slot that was never claimed are GARBAGE in the state;    *)
(* what a reader of such a record sees is chosen when the slot is claimed, *)
(* among GARBAGE (bytes that match no key) and the entries of the run.  A  *)
(* slot that was deleted keeps the bytes of its record, and they are the   *)
(* record of the next key that htable_enter_unsafe puts there.             *)
(*                                                                         *)
(* Where no caller claims a tombstone with htable_enter_unsafe (every run  *)
(* but those of SpecUnsafe) the bytes of a slot that is not USED are dead: *)
(* ht_isequal tests the marker before it calls comp, htable_rehash,        *)
(* htable_walk and htable_yield skip the slots that are not USED, and      *)
(* htable_enter overwrites the record of the slot it claims.  The state    *)
(* of those runs keeps them as GARBAGE; the record a call returns is read  *)
(* (Deref) before that.                                                    *)
(***************************************************************************)
Scrub(h) ==
    [h EXCEPT !.data = [i \in DOMAIN h.data |->
                          IF h.table[i] >= HBUCKET_USED THEN h.data[i]
                          ELSE GARBAGE]]

\* the table as the state keeps it: whole in the runs of SpecUnsafe, with
\* the dead bytes as GARBAGE in the others
Kept(h) == IF pc = "unsafe" THEN h ELSE Scrub(h)

\* what the bytes of a record that was never written may read as: bytes
\* that match no key, or those of any entry that the callers of the run
\* write (the memory malloc returns may be memory that free gave back)
Uninit(entries) == {GARBAGE} \cup entries

\* the slot that a successful insert claimed was EMPTY, not a tombstone:
\* the insert rehashed (a rehash leaves no tombstone) or spent budget
FreshSlot(h, r) == r.err = 0 /\ (r.rehashed \/ r.ht.cap # h.cap)

\* the result r of htable_enter_unsafe on table h, with the bytes that the
\* claimed slot holds when it was never written
Claimed(h, r, junk) ==
    IF FreshSlot(h, r) THEN [r EXCEPT !.ht = store(r.ht, r.ret, junk)] ELSE r

\* the last call, a successful htable_enter_unsafe, gave a pointer to a
\* record that the caller has not written yet
Unwritten == last.op = "enter_unsafe" /\ last.err = 0

\* raw counts the calls made, since the table was created or destroyed,
\* while a record that htable_enter_unsafe claimed was not written with an
\* entry matching its key (and the entries written that do not match); at 0
\* every record of a USED slot was written by htable_enter or by the
\* caller, but for the one of the last call when Unwritten holds.  The
\* callers make at most MaxRaw such calls.
Lapsed ==
    /\ (raw > 0 \/ Unwritten) => raw < MaxRaw
    /\ raw' = IF raw > 0 \/ Unwritten THEN raw + 1 ELSE raw

\* the record a returned pointer designates, read right after the call
Deref(h, p) == IF p >= 0 THEN h.data[p] ELSE NULL

\* key: the key passed (or the key of the entry passed to
\* htable_delete_unsafe); arg: the capacity passed to htable_resize or the
\* cursor passed to htable_yield; ret: the pointer or number returned;
\* seq: the slots htable_walk called action on
Outcome(op, key, err, ret, rehashed, rec) ==
    [op |-> op, key |-> key, arg |-> NULL, err |-> err, ret |-> ret,
     rehashed |-> rehashed, rec |-> rec, seq |-> << >>]

\* malloc is called only by htable_rehash; it may fail whenever it is called
MallocEnter(h) == IF h.cap = 0 THEN BOOLEAN ELSE {TRUE}

InitTable(keys) ==
    /\ \E hasher \in Hashers : ht = htable_create(4, 0, hasher)
    /\ last = Outcome("create", NULL, 0, NULL, FALSE, NULL)
    /\ amap = [k \in keys |-> {}]
    /\ raw = 0

\* the map after htable_enter returned err: the call wrote entry in the
\* slot it claimed for key k when it succeeded, and nothing otherwise
MapEnter(m, k, entry, err) ==
    IF err = 0 THEN [m EXCEPT ![k] = {entry}] ELSE m

\* the state after an insert call returned r
Entered(op, k, entry, r) ==
    /\ ht' = Kept(r.ht)
    /\ last' = Outcome(op, k, r.err, r.ret, r.rehashed, Deref(r.ht, r.ret))
    /\ amap' = MapEnter(amap, k, entry, r.err)
    /\ Lapsed

Enter(k, entry, ok) == Entered("enter", k, entry, htable_enter(ht, k, entry, ok))

\* the state after htable_enter_unsafe returned r: the slot is claimed and
\* its record is what it was; the map gets the key when the caller writes
EnteredUnsafe(k, r) ==
    /\ ht' = r.ht
    /\ last' = Outcome("enter_unsafe", k, r.err, r.ret, r.rehashed,
                       Deref(r.ht, r.ret))
    /\ amap' = amap
    /\ Lapsed

\* the state after htable_enter_unsafe returned r, for any of the bytes
\* junks that the record of a fresh slot may hold
ClaimedAny(k, junks, r) ==
    \E junk \in junks : EnteredUnsafe(k, Claimed(ht, r, junk))

EnterUnsafeAny(k, junks, ok) ==
    ClaimedAny(k, junks, htable_enter_unsafe(ht, k, ok))

EnterUnsafe(k, junk, ok) == EnterUnsafeAny(k, {junk}, ok)

\* the caller of htable_enter_unsafe writes an entry through the pointer it
\* got, as htable_enter does with its memmove; the key is in the map from
\* then on when the entry matches it
Store(entry) ==
    /\ Unwritten
    /\ ht' = store(ht, last.ret, entry)
    /\ last' = Outcome("store", last.key, 0, last.ret, FALSE, entry)
    /\ amap' = IF raw = 0 /\ comp(last.key, entry) = 0
               THEN [amap EXCEPT ![last.key] = {entry}] ELSE amap
    /\ comp(last.key, entry) # 0 => raw < MaxRaw
    /\ raw' = IF comp(last.key, entry) # 0 THEN raw + 1 ELSE raw

Found(k, p) ==
    /\ last' = Outcome("find", k, 0, p, FALSE, Deref(ht, p))
    /\ UNCHANGED <<ht, amap>> /\ Lapsed

Find(k) == Found(k, htable_find(ht, k))

Deleted(k, r) ==
    /\ ht' = Kept(r.ht)
    /\ last' = Outcome("delete", k, 0, r.ret, FALSE, Deref(r.ht, r.ret))
    /\ amap' = [amap EXCEPT ![k] = {}]
    /\ Lapsed

Delete(k) == Deleted(k, htable_delete(ht, k))

DeletedUnsafe(k, r) ==
    /\ ht' = Kept(r.ht)
    /\ last' = Outcome("delete_unsafe", IF r.err = 0 THEN k ELSE NULL,
                       r.err, NULL, FALSE, NULL)
    /\ amap' = IF r.err = 0 /\ k \in DOMAIN amap
               THEN [amap EXCEPT ![k] = {}] ELSE amap
    /\ Lapsed

\* the caller passes a pointer to slot i of the data region; the key of the
\* record there is the square of the entry
DeleteUnsafe(i) == DeletedUnsafe(KeyOf(ht.data[i]), htable_delete_unsafe(ht, i))

Resized(c, r) ==
    /\ ht' = Kept(r.ht)
    /\ last' = [Outcome("resize", NULL, r.err, NULL, r.rehashed, NULL)
                  EXCEPT !.arg = c]
    /\ UNCHANGED amap /\ Lapsed

Resize(c, ok) == Resized(c, htable_resize(ht, c, ok))

Destroy ==
    /\ ht' = htable_destroy(ht)
    /\ last' = Outcome("destroy", NULL, 0, NULL, FALSE, NULL)
    /\ amap' = [k \in DOMAIN amap |-> {}]
    /\ raw' = 0

Length ==
    /\ last' = Outcome("len", NULL, 0, htable_len(ht), FALSE, NULL)
    /\ UNCHANGED <<ht, amap>> /\ Lapsed

Walk ==
    /\ last' = [Outcome("walk", NULL, 0, NULL, FALSE, NULL)
                  EXCEPT !.seq = htable_walk(ht, 0)]
    /\ UNCHANGED <<ht, amap>> /\ Lapsed

Yielded(iter, p) ==
    /\ last' = [Outcome("yield", NULL, 0, p, FALSE, Deref(ht, p))
                  EXCEPT !.arg = iter]
    /\ UNCHANGED <<ht, amap>> /\ Lapsed

Yield(iter) == Yielded(iter, htable_yield(ht, iter))

Live == {k \in DOMAIN amap : amap[k] # {}}

\* malloc is called by htable_resize only when it rehashes
MallocResize(h, c) ==
    IF htable_resize(h, c, TRUE).rehashed THEN BOOLEAN ELSE {TRUE}

\* the pointers a caller may hold into the current data region: those that
\* htable_find or an insert returned, whose slot is USED or deleted since
Pointers(h) == {i \in DOMAIN h.data : h.table[i] # HBUCKET_EMPTY}

(***************************************************************************)
(* General specification: any sequence of calls of htable_enter,           *)
(* htable_delete, htable_delete_unsafe, htable_resize and htable_destroy   *)
(* on a small set of keys.                                                 *)
(***************************************************************************)
Idle == UNCHANGED <<pc, nseq, shift1, probe>>

\* no probe loop is being followed
NoProbe == [shift |-> 0, idx |-> 0, i |-> 0, seen |-> << >>]

Init ==
    /\ InitTable(Keys)
    /\ pc = "any" /\ nseq = 0 /\ shift1 = 0 /\ probe = NoProbe

Next ==
    \/ \E k \in Keys : \E entry \in Templates(k), ok \in MallocEnter(ht) :
          Enter(k, entry, ok) /\ Idle
    \/ \E k \in Keys : Delete(k) /\ Idle
    \/ \E i \in Pointers(ht) : DeleteUnsafe(i) /\ Idle
    \/ \E c \in 1 .. MaxReq : \E ok \in MallocResize(ht, c) : Resize(c, ok) /\ Idle
    \/ Destroy /\ Idle

Spec == Init /\ [][Next]_vars

\* the cursors a HTABLE_FOREACH loop passes to htable_yield: 0, and one
\* past the slot the last call gave
Cursors ==
    {0} \cup (IF last.op = "yield" /\ last.ret # NULL THEN {last.ret + 1}
              ELSE {})

\* the same calls, and the calls that only read the table
NextRead ==
    \/ Next
    \/ \E k \in Keys : Find(k) /\ Idle
    \/ Length /\ Idle
    \/ Walk /\ Idle
    \/ \E iter \in Cursors : Yield(iter) /\ Idle

SpecRead == Init /\ [][NextRead]_vars

(***************************************************************************)
(* The callers of htable_enter_unsafe: any sequence of the calls that      *)
(* change the table, on the keys RawKeys, in which the caller writes the   *)
(* record of the slot it got, with an entry that matches the key or not,   *)
(* or goes on without writing it.                                          *)
(***************************************************************************)
RawKeys == {i * i : i \in 0 .. NRaw - 1}
\* the entries these callers write
RawEntries == UNION {Templates(k) : k \in RawKeys}

InitUnsafe ==
    /\ InitTable(RawKeys)
    /\ pc = "unsafe" /\ nseq = 0 /\ shift1 = 0 /\ probe = NoProbe

NextUnsafe ==
    \/ \E k \in RawKeys : \E ok \in MallocEnter(ht) :
          EnterUnsafeAny(k, Uninit(RawEntries), ok) /\ Idle
    \/ Unwritten /\ \E entry \in Templates(last.key) : Store(entry) /\ Idle
    \/ \E k \in RawKeys : \E entry \in Matching(k), ok \in MallocEnter(ht) :
          Enter(k, entry, ok) /\ Idle
    \/ \E k \in RawKeys : Delete(k) /\ Idle
    \/ \E i \in Pointers(ht) : DeleteUnsafe(i) /\ Idle
    \/ \E ok \in MallocResize(ht, MaxReq) : Resize(MaxReq, ok) /\ Idle
    \/ Destroy /\ Idle

SpecUnsafe == InitUnsafe /\ [][NextUnsafe]_vars

(***************************************************************************)
(* Phased runs on a fresh table: insert the nseq keys of Group1 and delete *)
(* them all (lowest key first, as the loop of htable_test.c does), insert  *)
(* the nseq new keys of Group2 in any order, then enter the lowest present *)
(* key again or resize, once.                                              *)
(***************************************************************************)
Group1 == {i * i : i \in 0 .. nseq - 1}
Group2 == {i * i : i \in nseq .. 2 * nseq - 1}

InitSeq ==
    /\ InitTable(SeqKeys)
    /\ pc = "insert" /\ nseq \in 1 .. NSeq /\ shift1 = 0 /\ probe = NoProbe

\* the phase after a call of phase `phase` that aims at the live set `goal`
Advance(phase, goal, next) ==
    /\ pc' = IF Live' = goal THEN next ELSE phase
    /\ nseq' = nseq /\ probe' = probe
    /\ shift1' = IF phase = "insert" /\ Live' = goal THEN ht'.shift ELSE shift1

SeqEnter(k, ok) ==
    /\ pc = "insert" /\ k \in Group1 \ Live /\ \A j \in Group1 \ Live : k <= j
    /\ ~Unwritten
    /\ Enter(k, Root(k), ok)
    /\ Advance("insert", Group1, "delete")

\* the caller of the phased runs writes the record before its next call
SeqEnterUnsafe(k, junk, ok) ==
    /\ pc = "insert" /\ k \in Group1 \ Live /\ \A j \in Group1 \ Live : k <= j
    /\ ~Unwritten
    /\ EnterUnsafe(k, junk, ok)
    /\ UNCHANGED <<pc, nseq, shift1, probe>>

SeqStore ==
    /\ pc = "insert"
    /\ Store(Root(last.key))
    /\ Advance("insert", Group1, "delete")

SeqDelete(k) ==
    /\ pc = "delete" /\ k \in Live /\ \A j \in Live : k <= j
    /\ Delete(k)
    /\ Advance("delete", {}, "reinsert")

SeqDeleteUnsafe(k) ==
    /\ pc = "delete" /\ k \in Live /\ \A j \in Live : k <= j
    /\ htable_find(ht, k) # NULL
    /\ DeleteUnsafe(htable_find(ht, k))
    /\ Advance("delete", {}, "reinsert")

SeqReinsert(k, ok) ==
    /\ pc = "reinsert" /\ k \in Group2 \ Live
    /\ Enter(k, Root(k), ok)
    /\ Advance("reinsert", Group2, "after")

SeqAgain(k, ok) ==
    /\ pc = "after" /\ k \in Live /\ \A j \in Live : k <= j
    /\ EnterUnsafe(k, GARBAGE, ok)
    /\ pc' = "done" /\ UNCHANGED <<nseq, shift1, probe>>

SeqResize(c, ok) ==
    /\ pc = "after"
    /\ Resize(c, ok)
    /\ pc' = "done" /\ UNCHANGED <<nseq, shift1, probe>>

NextSeq ==
    \/ \E k \in SeqKeys, ok \in MallocEnter(ht) : SeqEnter(k, ok)
    \/ \E k \in SeqKeys, junk \in Uninit(SeqEntries), ok \in MallocEnter(ht) :
          SeqEnterUnsafe(k, junk, ok)
    \/ SeqStore
    \/ \E k \in SeqKeys : SeqDelete(k)
    \/ \E k \in SeqKeys : SeqDeleteUnsafe(k)
    \/ \E k \in SeqKeys, ok \in MallocEnter(ht) : SeqReinsert(k, ok)
    \/ \E k \in SeqKeys, ok \in MallocEnter(ht) : SeqAgain(k, ok)
    \/ \E c \in 1 .. MaxReq : \E ok \in MallocResize(ht, c) : SeqResize(c, ok)

SpecSeq == InitSeq /\ [][NextSeq]_vars

(***************************************************************************)
(* One run of HTABLE_PROBE_LOOP in a table of 2^shift slots, from any      *)
(* start index, followed for as many steps as the table has slots; the     *)
(* body of the loop never leaves it.                                       *)
(***************************************************************************)
\* for (ht__i = 0, idx = start;; ...): the loop at its step i, with the
\* slots it has visited so far
ProbeAt(shift, idx, i, seen) ==
    [shift |-> shift, idx |-> idx, i |-> i, seen |-> seen]

InitProbe ==
    /\ InitTable(Keys)
    /\ pc = "probe" /\ nseq = 0 /\ shift1 = 0
    /\ \E shift \in HTABLE_SHIFT_MIN .. MaxShift :
          \E start \in 0 .. HTABLE_SIZE(shift) - 1 :
              probe = ProbeAt(shift, start, 0, <<start>>)

\* the slot the loop visits next
ProbeTo(idx) == ProbeAt(probe.shift, idx, probe.i + 1, Append(probe.seen, idx))

\* ++ht__i, idx = (idx + ht__i) & mask
ProbeStep ==
    /\ probe.i + 1 < HTABLE_SIZE(probe.shift)
    /\ probe' = ProbeTo(ProbeNext(probe.idx, probe.i + 1,
                                  HTABLE_SIZE(probe.shift) - 1))
    /\ UNCHANGED <<ht, last, amap, raw, pc, nseq, shift1>>

NextProbe == ProbeStep

SpecProbe == InitProbe /\ [][NextProbe]_vars

(***************************************************************************)
(* Properties.                                                             *)
(***************************************************************************)
\* what htable_find gives the caller for key k: the record, or nothing
LookupAt(h, p) == IF p >= 0 THEN {h.data[p]} ELSE {}
Lookup(h, k) == LookupAt(h, htable_find(h, k))

\* C1: in a run that enters distinct keys into a fresh table and then
\* deletes them, htable_find on every key entered (and not deleted) returns
\* a record equal to the template entered for it, htable_find on every
\* deleted key returns not-found, and htable_len is the number of keys
\* entered and not deleted.
C1_RoundTrip ==
    pc \in {"insert", "delete"} /\ ~Unwritten =>
        /\ \A k \in Group1 \cap Live : Lookup(ht, k) = {Root(k)}
        /\ \A k \in Group1 \ Live : htable_find(ht, k) = NULL
        /\ htable_len(ht) = Cardinality(Group1 \cap Live)

\* seven keys were entered (two rehashes, the second one growing the table)
\* and the first of them has been deleted
C1_Witness ==
    /\ pc = "delete" /\ nseq = 7 /\ ht.shift = 4
    /\ last.op = "delete" /\ last.ret # NULL /\ Cardinality(Live) = 6

\* C2: whatever the hash function, after any sequence of calls the table
\* is the map from keys to records that the calls describe: htable_find(k)
\* returns a record iff k was entered and not deleted since, that record is
\* the one stored when k was entered, and htable_len counts those keys.
C2_AbstractMap ==
    /\ \A k \in Keys : Lookup(ht, k) = amap[k]
    /\ htable_len(ht) = Cardinality(Live)
    /\ \A k \in Keys :
          last.op = "enter" /\ last.key = k /\ last.err \in {0, -EEXIST}
          => {last.rec} = amap[k]

\* two keys with colliding hashes are present behind the tombstone of a
\* third one, which sits where their probes start
C2_Witness ==
    /\ ht.hasher = "const" /\ Cardinality(Live) = 2 /\ ht.alloc
    /\ ht.table[ProbeStart(HBUCKET_USED, ht.shift)] = HBUCKET_TOMB

\* no two USED slots hold records matching the same key, once the caller
\* of htable_enter_unsafe has written the record of the slot it got
NoDuplicate ==
    ~Unwritten =>
    \A i, j \in DOMAIN ht.data :
        i # j /\ ht.table[i] >= HBUCKET_USED /\ ht.table[j] >= HBUCKET_USED
        => KeyOf(ht.data[i]) # KeyOf(ht.data[j])

\* no two USED slots hold records matching the same key, in every state
NoDuplicateAtAll ==
    \A i, j \in DOMAIN ht.data :
        i # j /\ ht.table[i] >= HBUCKET_USED /\ ht.table[j] >= HBUCKET_USED
        => KeyOf(ht.data[i]) # KeyOf(ht.data[j])

\* a call of htable_enter_unsafe with a key that is present, its record
\* written
AgainStep == last'.op = "enter_unsafe" /\ amap[last'.key] # {}

\* the result r of a second htable_enter_unsafe with key k, made before
\* the caller wrote the record rec of slot p that the first call claimed:
\* the key is compared with the bytes found there
SecondCall(k, p, rec, r) ==
    IF comp(k, rec) = 0
    THEN r.err = -EEXIST /\ r.ret = p /\ r.ht = ht
    ELSE /\ r.err = 0 /\ r.ret # p /\ r.ht.len = ht.len + 1
         /\ r.ht.table[r.ret] = ht.table[p]

\* htable_enter_unsafe called again with the key of the record that is
\* still to be written
UnwrittenAgain ==
    Unwritten /\ ht.cap # 0 =>
        SecondCall(last.key, last.ret, last.rec,
                   htable_enter_unsafe(ht, last.key, TRUE))

\* C3 as stated: duplicates never arise, and htable_enter_unsafe with a
\* key that is present returns -EEXIST with the pointer to the key's slot
\* (when no rehash happened) and leaves len unchanged.
C3_Original ==
    /\ []NoDuplicateAtAll
    /\ [][AgainStep =>
            /\ last'.err = -EEXIST
            /\ ht'.len = ht.len
            /\ ~last'.rehashed => last'.ret = htable_find(ht, last'.key)]_vars

\* C3: while the callers write the record of every slot they get from
\* htable_enter_unsafe before their next call, duplicates never arise, and
\* htable_enter_unsafe with a key that is present leaves len unchanged and,
\* while the budget cap is not 0, returns -EEXIST with the pointer to the
\* key's slot and leaves the table alone; with cap at 0 it rehashes first,
\* so it returns either -ENOMEM with no pointer and the table unchanged, or
\* -EEXIST with the key's new slot.  Called a second time before the record
\* of the first call is written, it returns -EEXIST and the same pointer
\* only if the bytes of that record match the key; if they do not, it
\* claims a second slot for the key and len grows by 1.
C3_Duplicate ==
    /\ []NoDuplicate
    /\ []UnwrittenAgain
    /\ [][AgainStep =>
            /\ ht'.len = ht.len
            /\ ht.cap # 0 =>
                  /\ last'.err = -EEXIST /\ ~last'.rehashed /\ ht' = ht
                  /\ last'.ret = htable_find(ht, last'.key)
            /\ ht.cap = 0 =>
                  \/ last'.err = -ENOMEM /\ last'.ret = NULL /\ ht' = ht
                  \/ /\ last'.err = -EEXIST /\ last'.rehashed
                     /\ last'.ret = htable_find(ht', last'.key)]_vars

\* a present key was entered again, its slot not the first of its probe
C3_Witness ==
    /\ pc = "done" /\ last.op = "enter_unsafe" /\ last.err = -EEXIST
    /\ ~last.rehashed /\ ht.len >= 3
    /\ last.ret # ProbeStart(ht_hashof(ht, last.key), ht.shift)

\* C4: len never exceeds 75% of the table size, len <= 3 * 2^shift / 4.
C4_LoadFactor == 4 * ht.len <= 3 * HTABLE_SIZE(ht.shift)

\* the table is exactly 75% full, and a seventh key made it grow
C4_Witness ==
    \/ ht.len = 6 /\ ht.shift = 3
    \/ ht.len = 7 /\ ht.shift = 4 /\ last.rehashed
\* the shift when the third phase of a phased run is over, and before
AfterReinsert == pc \in {"reinsert", "after"}

\* C5 as stated: entering N keys, deleting them all and entering N new keys
\* leaves shift as it was after the first phase whenever N is at most the
\* capacity (3/4 of the size) the table had then.
C5_Original ==
    AfterReinsert /\ nseq <= HTABLE_CAP(shift1) => ht.shift = shift1

\* C5: entering N keys, deleting them all and entering N new keys leaves
\* shift as it was after the first phase whenever N is at most half the
\* capacity the table had then plus one, or N is exactly that capacity; for
\* any other N the table grows by at most one step.
C5_TombReclaim ==
    AfterReinsert =>
        /\ ht.shift \in {shift1, shift1 + 1}
        /\ nseq <= HTABLE_CAP(shift1) \div 2 + 1 \/ nseq = HTABLE_CAP(shift1)
           => ht.shift = shift1

\* four new keys are in after a purge of the tombstones at the same size,
\* and six new keys are in a table that six deleted keys had filled
C5_Witness ==
    /\ pc = "after" /\ last.op = "enter" /\ ht.shift = shift1
    /\ \/ nseq = 4 /\ ht.cap = 2
       \/ nseq = 6 /\ ht.cap = 0

\* a call that rehashed
RehashStep == last'.rehashed /\ last'.err \in {0, -EEXIST}

\* htable_find of key k gives what it gave before the call, or it gave
\* nothing and now gives the slot that htable_enter_unsafe has just claimed,
\* whose unwritten bytes match k
SameLookup(k) ==
    \/ Lookup(ht', k) = Lookup(ht, k)
    \/ /\ last'.op = "enter_unsafe" /\ last'.err = 0
       /\ Lookup(ht, k) = {} /\ htable_find(ht', k) = last'.ret

\* C6: a rehash, triggered by an insert or by htable_resize, keeps every
\* live key findable with the record it had, makes no deleted key findable,
\* and changes len only by the key the triggering insert adds.
C6_RehashPreserves ==
    [][RehashStep =>
        /\ \A k \in SeqKeys :
              k # last'.key \/ last'.err # 0 => SameLookup(k)
        /\ ht'.len = ht.len + (IF last'.op # "resize" /\ last'.err = 0
                               THEN 1 ELSE 0)
        /\ \A i \in DOMAIN ht'.table : ht'.table[i] # HBUCKET_TOMB]_vars

\* a seventh key made the table grow, and a resize moved five live keys
C6_Witness ==
    \/ last.op = "enter" /\ last.rehashed /\ ht.len = 7 /\ ht.shift = 4
    \/ last.op = "resize" /\ last.rehashed /\ ht.len = 5
\* a call that neither rehashes nor deletes key k
KeepsKey(k) ==
    /\ ~last'.rehashed /\ last'.op # "destroy"
    /\ ~(last'.op \in {"delete", "delete_unsafe"} /\ last'.key = k)

\* slot p has the marker and the record it had, and holds key k
SameSlot(p, k) ==
    /\ ht'.table[p] = ht.table[p] /\ ht'.data[p] = ht.data[p]
    /\ htable_find(ht', k) = p

\* C7: a call that does not rehash and does not delete key k leaves k in
\* the same slot index with the same record and marker, where htable_find
\* finds it.
C7_PointerStable ==
    [][raw = 0 /\ ~Unwritten =>
        \A p \in DOMAIN ht.data :
            ht.table[p] >= HBUCKET_USED /\ KeepsKey(KeyOf(ht.data[p]))
            => SameSlot(p, KeyOf(ht.data[p]))]_vars

\* htable_enter_unsafe claimed the tombstone where the probes start, which
\* holds the bytes of the record deleted there, while the other key sat
\* behind it on the same probe path
C7_Witness ==
    /\ ht.hasher = "const" /\ ht.len = 2 /\ raw = 0
    /\ last.op = "enter_unsafe" /\ last.err = 0 /\ ~last.rehashed
    /\ last.ret = ProbeStart(HBUCKET_USED, ht.shift)
    /\ last.rec # GARBAGE

\* C8: htable_resize(c) with c < len returns -ENOSPC and leaves the table
\* as it was; with c >= len it never returns -ENOSPC.
C8_ResizeSpace ==
    [][last'.op = "resize" =>
        /\ last'.arg < ht.len => last'.err = -ENOSPC /\ ht' = ht
        /\ last'.arg >= ht.len => last'.err # -ENOSPC]_vars

\* resize(1) on a table of five entries
C8_Witness ==
    /\ last.op = "resize" /\ last.arg = 1 /\ last.err = -ENOSPC
    /\ ht.len = 5 /\ Cardinality(Live) = 5

\* C9 as stated: after htable_resize(c) returned success with len < c, the
\* budget cap covers the c - len inserts to come, so that none of them
\* finds cap at 0 and rehashes.
C9_NoRehashUpTo ==
    last.op = "resize" /\ last.err = 0 /\ ht.len < last.arg
    => ht.cap >= last.arg - ht.len

\* whenever a call needs a rehash and the allocation fails, it returns
\* -ENOMEM
AllocFails ==
    /\ ht.cap = 0 =>
          \A k \in SeqKeys :
              /\ htable_enter_unsafe(ht, k, FALSE).err = -ENOMEM
              /\ htable_enter(ht, k, Root(k), FALSE).err = -ENOMEM
    /\ \A c \in 1 .. MaxReq :
          htable_resize(ht, c, TRUE).rehashed
          => htable_resize(ht, c, FALSE).err = -ENOMEM

\* C10: when the allocation inside a rehash fails, htable_resize,
\* htable_enter_unsafe and htable_enter return -ENOMEM, the inserts return
\* no pointer, and the table is exactly as before the call, so that the
\* next call starts from the state the failed one started from.
C10_AllocFailure ==
    /\ []AllocFails
    /\ [][last'.err = -ENOMEM =>
            /\ last'.op \in {"enter", "enter_unsafe", "resize"}
            /\ ht' = ht /\ amap' = amap /\ last'.ret = NULL]_vars

\* an insert into a full table of six entries failed for lack of memory
C10_Witness ==
    /\ last.op = "enter" /\ last.err = -ENOMEM
    /\ ht.len = 6 /\ ht.cap = 0 /\ ht.alloc
\* C11 as stated: htable_enter_unsafe with a key that is present changes
\* nothing of the table, in every reachable state.
C11_Original ==
    \A k \in Live, ok \in BOOLEAN : htable_enter_unsafe(ht, k, ok).ht = ht

\* what a call that found the key present, after a rehash, left of h
OnlyRehashed(h, r) ==
    /\ r.err = -EEXIST /\ r.rehashed
    /\ r.ht.len = h.len /\ r.ht.cap = HTABLE_CAP(r.ht.shift) - h.len
    /\ r.ht.shift \in {h.shift, h.shift + 1}
    /\ \A i \in DOMAIN r.ht.table : r.ht.table[i] # HBUCKET_TOMB

\* C11: htable_enter_unsafe with a key that is present changes nothing of
\* the table (markers, records, len, cap, shift) while the budget cap is
\* not 0, or when its allocation fails; with cap at 0 it rehashes before it
\* finds the key, which drops the tombstones, resets cap and may grow the
\* table by one step, and keeps len.
C11_NoMutation ==
    [](\A k \in Live :
          /\ ht.cap # 0 => htable_enter_unsafe(ht, k, TRUE).ht = ht
          /\ ht.cap = 0 =>
                /\ htable_enter_unsafe(ht, k, FALSE).ht = ht
                /\ OnlyRehashed(ht, htable_enter_unsafe(ht, k, TRUE)))

\* the lowest of seven new keys was entered again in the grown table
C11_Witness ==
    /\ pc = "done" /\ last.op = "enter_unsafe" /\ last.err = -EEXIST
    /\ ~last.rehashed /\ ht.cap > 0 /\ ht.len = 7 /\ ht.shift = 4

\* the entries that do not match key k
Mismatching(k) == Templates(k) \ Matching(k)

\* htable_enter refuses every entry that does not match the key
Refused ==
    \A k \in Keys, ok \in BOOLEAN :
        \A entry \in Mismatching(k) :
            htable_enter(ht, k, entry, ok)
                = [err |-> -EINVAL, ret |-> NULL, ht |-> ht, rehashed |-> FALSE]

\* C12: htable_enter with an entry that does not match the key returns
\* -EINVAL and no pointer and leaves the table unchanged, cap at 0 or not.
C12_InvalidEntry ==
    /\ []Refused
    /\ [][last'.err = -EINVAL =>
            /\ last'.op = "enter" /\ last'.ret = NULL /\ ~last'.rehashed
            /\ ht' = ht /\ amap' = amap]_vars

\* a mismatching entry was refused by a fresh table, whose cap is 0, and by
\* a table that holds two keys
C12_Witness ==
    /\ last.op = "enter" /\ last.err = -EINVAL
    /\ \/ ht.cap = 0 /\ ~ht.alloc
       \/ ht.len = 2 /\ ht.cap > 0

\* a call of htable_enter with a key the table does not hold, whose
\* allocation, if any, succeeded
InsertStep ==
    /\ last'.op = "enter" /\ htable_find(ht, last'.key) = NULL
    /\ last'.err # -ENOMEM

\* C13: htable_enter on a table that does not contain the key returns 0
\* and a pointer to a USED slot whose record equals the entry passed, and
\* increases len by exactly 1.
C13_Inserted ==
    [][InsertStep =>
        /\ last'.err = 0 /\ last'.ret \in DOMAIN ht'.data
        /\ ht'.table[last'.ret] >= HBUCKET_USED
        /\ ht'.data[last'.ret] = Root(last'.key)
        /\ last'.rec = Root(last'.key)
        /\ ht'.len = ht.len + 1]_vars

\* a new key went into a tombstone, and the seventh key into a grown table
C13_Witness ==
    /\ last.op = "enter" /\ last.err = 0
    /\ \/ pc = "reinsert" /\ ht.cap = HTABLE_CAP(ht.shift) - nseq /\ nseq = 3
       \/ last.rehashed /\ ht.len = 7
\* a call of htable_delete with a key the table holds
DeleteStep == last'.op = "delete" /\ htable_find(ht, last'.key) # NULL

\* the call returned slot p with its record and left a tombstone there
Removed(p, k) ==
    /\ last'.ret = p /\ last'.rec = ht.data[p]
    /\ ht'.table = [ht.table EXCEPT ![p] = HBUCKET_TOMB]
    /\ \A i \in DOMAIN ht.data : i # p => ht'.data[i] = ht.data[i]
    /\ ht'.len = ht.len - 1 /\ ht'.cap = ht.cap /\ ht'.shift = ht.shift
    /\ htable_find(ht', k) = NULL

\* C14: htable_delete of a present key marks exactly that key's slot TOMB,
\* decrements len by exactly 1 and returns the slot's record, unchanged and
\* equal to what htable_find returned before; htable_find of the key then
\* returns not-found.
C14_Deleted ==
    [][DeleteStep => Removed(htable_find(ht, last'.key), last'.key)]_vars

\* a key was deleted in front of two keys on the same probe path
C14_Witness ==
    /\ ht.hasher = "const" /\ last.op = "delete" /\ last.rec = Root(last.key)
    /\ last.ret = ProbeStart(HBUCKET_USED, ht.shift) /\ ht.len = 2

\* htable_delete_unsafe returned r for slot i of h, which was USED
Tombed(h, i, r) ==
    /\ r.err = 0
    /\ r.ht = [h EXCEPT !.table[i] = HBUCKET_TOMB, !.len = @ - 1]
    /\ htable_find(r.ht, KeyOf(h.data[i])) = NULL

\* C15: htable_delete_unsafe on slot i returns -ENOENT and changes nothing
\* if slot i is not USED; otherwise it marks slot i TOMB, decrements len by
\* 1 and returns 0, and the key that was in slot i is not found any more.
C15_DeleteUnsafe ==
    \A i \in DOMAIN ht.data :
        IF ht.table[i] >= HBUCKET_USED
        THEN Tombed(ht, i, htable_delete_unsafe(ht, i))
        ELSE htable_delete_unsafe(ht, i) = [err |-> -ENOENT, ht |-> ht]

\* a pointer to a slot deleted before was passed while two keys were live
C15_Witness ==
    /\ last.op = "delete_unsafe" /\ last.err = -ENOENT /\ ht.len = 2
    /\ \E i \in DOMAIN ht.table : ht.table[i] = HBUCKET_TOMB

\* the table htable_create makes with the configuration of h
Fresh(h) == htable_create(h.inc, h.seed, h.hasher)

\* destroying gives the just-created table, and destroying again changes
\* nothing
DestroyResets ==
    /\ htable_destroy(ht) = Fresh(ht)
    /\ htable_destroy(htable_destroy(ht)) = htable_destroy(ht)

\* C16: htable_destroy returns the table to the just-created state with
\* its configuration kept, a second htable_destroy changes nothing, and
\* the state after it is the state a run starts from, so that every
\* sequence of calls continues from it as from a freshly created table.
C16_DestroyFresh ==
    /\ []DestroyResets
    /\ [][last'.op = "destroy" =>
            /\ ht' = Fresh(ht) /\ ht' = htable_create(4, 0, ht.hasher)
            /\ amap' = [k \in Keys |-> {}]
            /\ pc' = "any" /\ nseq' = 0 /\ shift1' = 0]_vars

\* htable_destroy has returned: nothing is allocated and the table is empty
C16_Witness ==
    /\ last.op = "destroy" /\ ~ht.alloc /\ ht.data = << >>
    /\ ht.len = 0 /\ ht.cap = 0 /\ ht.shift = HTABLE_SHIFT_MIN
\* the slots of h whose marker is USED
UsedSlots(h) == {i \in DOMAIN h.data : h.table[i] >= HBUCKET_USED}

\* seq lists every USED slot once, lowest index first
Walked(seq) ==
    /\ \A i, j \in DOMAIN seq : i < j => seq[i] < seq[j]
    /\ {seq[i] : i \in DOMAIN seq} = UsedSlots(ht)
    /\ Len(seq) = htable_len(ht)

\* C17: htable_walk calls action exactly once for each USED slot and never
\* for an EMPTY or TOMB slot, in ascending slot order, htable_len times.
C17_Walk ==
    /\ Walked(htable_walk(ht, 0))
    /\ last.op = "walk" => Walked(last.seq)

\* a walk passed over a tombstone and then called action twice
C17_Witness ==
    /\ last.op = "walk" /\ Len(last.seq) = 2
    /\ \E i \in DOMAIN ht.table :
          ht.table[i] = HBUCKET_TOMB /\ i < last.seq[1]

\* p is what htable_yield must give for cursor iter
Yields(iter, p) ==
    IF \E i \in UsedSlots(ht) : i >= iter
    THEN /\ p \in UsedSlots(ht) /\ p >= iter
         /\ \A i \in UsedSlots(ht) : i >= iter => p <= i
    ELSE p = NULL

\* seq lists every USED slot once
Visited(seq) ==
    /\ \A i, j \in DOMAIN seq : i # j => seq[i] # seq[j]
    /\ {seq[i] : i \in DOMAIN seq} = UsedSlots(ht)
    /\ Len(seq) = htable_len(ht)

\* C18: htable_yield returns the lowest USED slot at or after the cursor,
\* whatever the cursor, and sets the cursor to it, or returns NULL when
\* there is none; the
\* HTABLE_FOREACH loop ends and visits every live entry exactly once,
\* htable_len times in total.
C18_Yield ==
    /\ \A iter \in 0 .. HTABLE_SIZE(ht.shift) :
          Yields(iter, htable_yield(ht, iter))
    /\ last.op = "yield" => Yields(last.arg, last.ret)
    /\ Visited(HTABLE_FOREACH(ht))

\* a yield skipped slots that are not USED, and another found nothing
\* behind the last entry
C18_Witness ==
    /\ last.op = "yield" /\ last.arg > 0 /\ ht.len = 3
    /\ \/ last.ret > last.arg
       \/ last.ret = NULL /\ last.arg <= ht.mask
\* C19: len equals the number of slots whose marker is USED (>= 2).
C19_LenCounts ==
    htable_len(ht)
        = Cardinality({i \in DOMAIN ht.table : ht.table[i] >= HBUCKET_USED})

\* three slots are USED in a table that a resize has grown, two of them
\* claimed by htable_enter_unsafe for one key, whose record was not written
C19_Witness ==
    /\ ht.len = 3 /\ ht.shift = 4 /\ raw = 1
    /\ last.op = "enter_unsafe" /\ last.err = 0

\* C20 as stated: no call other than htable_destroy ever decreases shift.
C20_Original == [][ht'.shift < ht.shift => last'.op = "destroy"]_vars

\* a successful htable_resize(c) rehashed into the smallest table, not
\* below the minimum size, whose capacity is at least c
Shrunk(c) ==
    /\ last'.op = "resize" /\ last'.err = 0 /\ last'.rehashed
    /\ ht.len <= c /\ c < HTABLE_CAP(ht.shift)
    /\ HTABLE_CAP(ht'.shift) >= c
    /\ ht'.shift = HTABLE_SHIFT_MIN \/ HTABLE_CAP(ht'.shift - 1) < c
    /\ ht'.len = ht.len

\* C20: shift decreases only in htable_destroy and in an htable_resize(c)
\* with len <= c < capacity of the table, which rehashes into the smallest
\* table that has capacity for c; htable_delete, htable_delete_unsafe,
\* htable_enter and htable_enter_unsafe never decrease it.
C20_Shrink ==
    [][ht'.shift < ht.shift => last'.op = "destroy" \/ Shrunk(last'.arg)]_vars

\* a resize took a table of two entries back to the minimum size
C20_Witness ==
    /\ last.op = "resize" /\ last.rehashed /\ last.arg < HTABLE_CAP(4)
    /\ ht.shift = HTABLE_SHIFT_MIN /\ ht.len = 2

\* C21 as stated: when htable_enter_unsafe finds cap at 0, the rehash it
\* performs targets a shift of at least the current shift + 1.
C21_Original ==
    \A k \in Group1 \cup Group2 :
        ht.cap = 0 => htable_enter_unsafe(ht, k, TRUE).ht.shift >= ht.shift + 1

\* the shift of table r.ht, which htable_enter_unsafe rehashed from table h
RehashTarget(h, r) ==
    /\ r.rehashed /\ r.err \in {0, -EEXIST}
    /\ r.ht.shift = IF 2 * h.len > HTABLE_CAP(h.shift) THEN h.shift + 1
                    ELSE h.shift

\* C21: when htable_enter_unsafe finds cap at 0 (and its allocation
\* succeeds), the rehash it performs targets the current shift + 1 if len
\* exceeds half the capacity of the current size, and the current shift
\* otherwise; it never targets more than one step above.
C21_RehashTarget ==
    [](\A k \in Group1 \cup Group2 :
          ht.cap = 0 => RehashTarget(ht, htable_enter_unsafe(ht, k, TRUE)))

\* six keys were entered and deleted, which used up the budget, and the
\* first new key was entered by a rehash that kept the size
C21_Witness ==
    /\ pc = "reinsert" /\ nseq = 6 /\ last.op = "enter" /\ last.rehashed
    /\ ht.alloc /\ ht.shift = shift1 /\ ht.len = 1

\* int const shift = ht->shift + (ht->len > HTABLE_CAP(ht->shift) / 2);
EnterShift(h) ==
    h.shift + IF h.len > HTABLE_CAP(h.shift) \div 2 THEN 1 ELSE 0

\* the shift the loop of htable_resize arrives at for the request cap
ResizeShift(h, cap) ==
    resize_shift(IF HTABLE_CAP(h.shift) <= cap THEN h.shift
                 ELSE HTABLE_SHIFT_MIN, cap)

\* the shifts that the callers of htable_rehash pass for table h:
\* htable_enter_unsafe when it rehashes, and htable_resize for the
\* requests caps that it accepts
RehashShifts(h, caps) ==
    {EnterShift(h)} \cup {ResizeShift(h, c) : c \in {c \in caps : h.len <= c}}

\* table r.ht is what a successful rehash leaves: no tombstone, and the
\* budget is three quarters of the new size less len
Purged(r) ==
    /\ \A i \in DOMAIN r.ht.table : r.ht.table[i] # HBUCKET_TOMB
    /\ DOMAIN r.ht.table = 0 .. HTABLE_SIZE(r.ht.shift) - 1
    /\ r.ht.cap = (3 * HTABLE_SIZE(r.ht.shift)) \div 4 - r.ht.len

\* C22: right after every successful rehash the table has no TOMB slot and
\* cap is floor(3 * size / 4) - len for the new size.
C22_RehashBudget ==
    [](\A s \in RehashShifts(ht, 1 .. MaxReq) :
          htable_rehash(ht, s, TRUE).err = 0 =>
              /\ htable_rehash(ht, s, TRUE).ht.shift = s
              /\ Purged(htable_rehash(ht, s, TRUE)))

\* a table holding two keys and a tombstone, which a rehash to the same
\* size and a rehash to the next size both accept
C22_Witness ==
    /\ ht.alloc /\ ht.len = 2
    /\ \E i \in DOMAIN ht.table : ht.table[i] = HBUCKET_TOMB
    /\ htable_rehash(ht, ht.shift, TRUE).err = 0
    /\ htable_rehash(ht, ht.shift + 1, TRUE).ht.cap
          = HTABLE_CAP(ht.shift + 1) - 2

\* the slots the probe of hash x visits in table h from its step i on, up
\* to the first EMPTY slot (at most size of them)
RECURSIVE PathFrom(_, _, _)
PathFrom(h, idx, i) ==
    IF i > h.mask \/ h.table[idx] = HBUCKET_EMPTY THEN <<idx>>
    ELSE <<idx>> \o PathFrom(h, ProbeNext(idx, i + 1, h.mask), i + 1)

Path(h, k) == PathFrom(h, ProbeStart(ht_hashof(h, k), h.shift), 0)

\* the positions of the TOMB slots on path p, and the slot that ends it
TombsOn(h, p) == {n \in DOMAIN p : h.table[p[n]] = HBUCKET_TOMB}
FirstTomb(h, p) ==
    p[CHOOSE n \in TombsOn(h, p) : \A m \in TombsOn(h, p) : n <= m]
EndOf(p) == p[Len(p)]

\* r is the outcome of inserting an absent key whose probe in table h
\* runs along path p
ProbeClaims(h, p, r) ==
    /\ r.err = 0 /\ h.table[EndOf(p)] = HBUCKET_EMPTY
    /\ r.ht.len = h.len + 1
    /\ TombsOn(h, p) # {} =>
          /\ r.ret = FirstTomb(h, p)
          /\ r.ht.table[EndOf(p)] = HBUCKET_EMPTY
          /\ r.ht.cap = h.cap
    /\ TombsOn(h, p) = {} =>
          /\ r.ret = EndOf(p)
          /\ r.ht.cap = h.cap - 1
    /\ r.ht.table = [h.table EXCEPT ![r.ret] = r.ht.table[r.ret]]
    /\ r.ht.table[r.ret] >= HBUCKET_USED

\* the table an insert probes: the table as it is, or, with cap at 0, the
\* table that its rehash made
Probed(h) ==
    IF h.cap = 0 THEN htable_rehash(h, enter_shift(h), TRUE).ht ELSE h

\* the two cases of an insert of an absent key
InsertClaims ==
    \A k \in Keys :
        htable_find(ht, k) = NULL =>
            ProbeClaims(Probed(ht), Path(Probed(ht), k),
                        htable_enter_unsafe(ht, k, TRUE))

\* inserts that do not add a key (the allocation failed, the key is
\* present, the entry does not match the key), and deletes, leave cap alone
CapKept ==
    /\ \A k \in Keys :
          /\ htable_delete(ht, k).ht.cap = ht.cap
          /\ ht.cap = 0 => htable_enter_unsafe(ht, k, FALSE).ht.cap = ht.cap
          /\ htable_find(ht, k) # NULL /\ ht.cap # 0 =>
                htable_enter_unsafe(ht, k, TRUE).ht.cap = ht.cap
          /\ \A entry \in Mismatching(k) :
                htable_enter(ht, k, entry, TRUE).ht.cap = ht.cap
    /\ \A i \in Pointers(ht) : htable_delete_unsafe(ht, i).ht.cap = ht.cap

\* C23 as stated: an insert of an absent key that passes a TOMB slot takes
\* the first one, leaves the EMPTY slot EMPTY and keeps cap; one that
\* passes none claims the EMPTY slot and lowers cap by 1; and no other
\* operation lowers cap.
C23_Original ==
    /\ InsertClaims
    /\ CapKept
    /\ \A c \in 1 .. MaxReq : htable_resize(ht, c, TRUE).ht.cap >= ht.cap
    /\ htable_destroy(ht).cap >= ht.cap

\* table r.ht, which htable_resize made of table h, has the budget of h
\* unless it was rehashed, and then three quarters of its size less len
ResizeBudget(h, r) ==
    r.ht.cap = IF r.rehashed THEN HTABLE_CAP(r.ht.shift) - h.len ELSE h.cap

\* C23: an insert of an absent key that passes a TOMB slot takes the first
\* one, leaves the EMPTY slot EMPTY and keeps cap; one that passes none
\* claims the EMPTY slot and lowers cap by 1.  No other insert and no
\* delete changes cap; a rehash sets cap to three quarters of the new size
\* less len and htable_destroy sets it to 0, which may be less than before.
C23_BudgetCharge ==
    [](/\ InsertClaims
       /\ CapKept
       /\ \A c \in 1 .. MaxReq : ResizeBudget(ht, htable_resize(ht, c, TRUE))
       /\ htable_destroy(ht).cap = 0)

\* an absent key whose probe passes a USED slot, then a TOMB slot, before
\* it reaches an EMPTY slot, in a table with budget left
C23_Witness ==
    /\ ht.cap > 0
    /\ \E k \in Keys :
          /\ htable_find(ht, k) = NULL
          /\ TombsOn(ht, Path(ht, k)) # {}
          /\ FirstTomb(ht, Path(ht, k)) # Path(ht, k)[1]

\* the number of slots the probe that is at slot idx of table h in its
\* step i has visited when it reaches an EMPTY slot; HANG if it has
\* visited size slots and none was EMPTY
RECURSIVE ProbeSteps(_, _, _)
ProbeSteps(h, idx, i) ==
    IF i >= HTABLE_SIZE(h.shift) THEN HANG
    ELSE IF h.table[idx] = HBUCKET_EMPTY THEN i + 1
    ELSE ProbeSteps(h, ProbeNext(idx, i + 1, h.mask), i + 1)

\* C24: in every reachable state every probe loop ends within size steps,
\* because the probe from every start index reaches an EMPTY slot: no call
\* of htable_enter, htable_enter_unsafe, htable_delete or htable_resize
\* (with the copy loop of htable_rehash) has run its probe loop forever,
\* and htable_find of the key of the last call does not either.
C24_ProbeEnds ==
    [](/\ last.err # HANG /\ last.ret # HANG
       /\ \A idx \in DOMAIN ht.table : ProbeSteps(ht, idx, 0) # HANG
       /\ last.key # NULL => htable_find(ht, last.key) # HANG)

\* a table of 8 slots with two EMPTY slots left and no budget, where the
\* probe of some key passes five slots before it ends
C24_Witness ==
    /\ ht.alloc /\ ht.shift = HTABLE_SHIFT_MIN /\ ht.cap = 0
    /\ \E idx \in DOMAIN ht.table : ProbeSteps(ht, idx, 0) >= 5

\* the slots seen are within the table and no two of them are the same
Distinct(seen, size) ==
    /\ \A n \in DOMAIN seen : seen[n] \in 0 .. size - 1
    /\ \A n, m \in DOMAIN seen : n # m => seen[n] # seen[m]

\* C25: for every size 2^shift (shift >= 3) and every start index, the
\* probe sequence idx_0 = start, idx_k = (idx_(k-1) + k) & mask is
\* (start + k(k+1)/2) mod size, stays within [0, size), and its first size
\* elements are pairwise distinct, so that they are all the slots.
C25_ProbeCovers ==
    pc = "probe" =>
        /\ Distinct(probe.seen, HTABLE_SIZE(probe.shift))
        /\ \A n \in DOMAIN probe.seen :
              probe.seen[n] = (probe.seen[1] + ((n - 1) * n) \div 2)
                                  % HTABLE_SIZE(probe.shift)
        /\ Len(probe.seen) = probe.i + 1 /\ probe.idx = probe.seen[probe.i + 1]
        /\ Len(probe.seen) = HTABLE_SIZE(probe.shift) =>
              {probe.seen[n] : n \in DOMAIN probe.seen}
                  = 0 .. HTABLE_SIZE(probe.shift) - 1

\* a probe of a table of 32 slots, started at its last slot, has made as
\* many steps as the table has slots
C25_Witness ==
    /\ pc = "probe" /\ probe.shift = 5 /\ probe.seen[1] = 31
    /\ Len(probe.seen) = HTABLE_SIZE(probe.shift)

\* the probe that is at slot idx of table h in its step i comes to slot s
\* before it has visited an EMPTY slot
RECURSIVE Reaches(_, _, _, _)
Reaches(h, idx, i, s) ==
    IF idx = s THEN TRUE
    ELSE IF i >= h.mask \/ h.table[idx] = HBUCKET_EMPTY THEN FALSE
    ELSE Reaches(h, ProbeNext(idx, i + 1, h.mask), i + 1, s)

\* C26: in every reachable state, for every live key k stored in slot s,
\* every slot that the probe of k visits before s is USED or TOMB, and
\* htable_find(k) is slot s: no delete of another key, no reuse of a
\* tombstone and no rehash has made a live key unreachable.
C26_ProbePath ==
    \A s \in UsedSlots(ht) :
        /\ Reaches(ht, ProbeStart(ht_hashof(ht, KeyOf(ht.data[s])), ht.shift),
                   0, s)
        /\ htable_find(ht, KeyOf(ht.data[s])) = s

\* a live key sits behind a tombstone and a USED slot of its probe path
C26_Witness ==
    \E s \in UsedSlots(ht) : \E t, u \in DOMAIN ht.table :
        /\ t = ProbeStart(ht_hashof(ht, KeyOf(ht.data[s])), ht.shift)
        /\ u = ProbeNext(t, 1, ht.mask)
        /\ s = ProbeNext(u, 2, ht.mask)
        /\ ht.table[t] = HBUCKET_TOMB /\ ht.table[u] >= HBUCKET_USED

\* the keys whose hash, as the hasher of table h returns it, is 0 or 1
LowKeys(h) == {k \in Keys : hash(h.hasher, k, h.seed) < HBUCKET_USED}

\* the larger of two numbers
Max(a, b) == IF a >= b THEN a ELSE b

\* C27: in every reachable state each slot marker is 0 (EMPTY), 1 (TOMB)
\* or a value >= 2, and the marker of every USED slot is
\* max(hash(key, seed), 2) for the key stored there; the keys whose raw
\* hash is 0 or 1 are stored with marker 2 as distinct entries: each is
\* found, with its own record in its own slot, iff it was entered and not
\* deleted since.
C27_Markers ==
    /\ \A i \in DOMAIN ht.table : ht.table[i] \in Nat
    /\ \A s \in UsedSlots(ht) :
          ht.table[s] = Max(hash(ht.hasher, KeyOf(ht.data[s]), ht.seed), 2)
    /\ \A k \in LowKeys(ht) :
          /\ Lookup(ht, k) = amap[k]
          /\ amap[k] # {} => ht.table[htable_find(ht, k)] = 2
          /\ \A j \in LowKeys(ht) \ {k} :
                amap[k] # {} => htable_find(ht, j) # htable_find(ht, k)

\* the keys 0 and 1, whose hashes are 0 and 1, are both present, and the
\* last call entered one of them, with marker 2
C27_Witness ==
    /\ ht.hasher = "ident" /\ LowKeys(ht) = {0, 1}
    /\ amap[0] # {} /\ amap[1] # {}
    /\ last.op = "enter" /\ last.key \in {0, 1} /\ last.err = 0
    /\ ht.table[last.ret] = HBUCKET_USED

\* s is the least shift, not below the minimum, of a table with capacity
\* for c entries
MinShift(s, c) ==
    /\ s >= HTABLE_SHIFT_MIN /\ 3 * Pow2(s - 2) >= c
    /\ s = HTABLE_SHIFT_MIN \/ 3 * Pow2(s - 3) < c

\* a call htable_resize(c) with c >= len that returned 0
ResizeStep == last'.op = "resize" /\ last'.err = 0 /\ last'.arg >= ht.len

\* C28: a successful htable_resize(c) with c >= len leaves the table at
\* the least shift s >= 3 with 3 * 2^(s-2) >= c; it rehashes iff s differs
\* from the shift before the call, and when s is the shift before the call
\* the table is left as it was.
C28_ResizeMinimal ==
    [][ResizeStep =>
        /\ MinShift(ht'.shift, last'.arg)
        /\ last'.rehashed <=> ht'.shift # ht.shift
        /\ ht'.alloc # ht.alloc => last'.rehashed
        /\ ht'.shift = ht.shift => ht' = ht]_vars

\* htable_resize(7) took a table of 8 slots holding two keys to 16 slots
C28_Witness ==
    /\ last.op = "resize" /\ last.err = 0 /\ last.arg = 7 /\ last.rehashed
    /\ ht.shift = 4 /\ ht.len = 2 /\ ht.cap = HTABLE_CAP(4) - 2

\* C29: in every reachable state the table has 2^shift slots with
\* shift >= 3, that is at least 8 slots, whatever enter, delete, resize and
\* destroy calls were made.
C29_MinSize ==
    /\ ht.shift >= HTABLE_SHIFT_MIN
    /\ DOMAIN ht.table = 0 .. Pow2(ht.shift) - 1
    /\ Cardinality(DOMAIN ht.table) >= 8
    /\ ht.alloc => DOMAIN ht.data = DOMAIN ht.table

\* htable_resize(1) took a grown table holding one key back to 8 slots
C29_Witness ==
    /\ last.op = "resize" /\ last.arg = 1 /\ last.rehashed
    /\ ht.shift = HTABLE_SHIFT_MIN /\ ht.len = 1

\* the USED slots of table h whose stored hash is the floored hash of key k
\* and whose record matches k
Holding(h, k) ==
    {s \in UsedSlots(h) :
        h.table[s] = Max(hash(h.hasher, k, h.seed), 2) /\ KeyOf(h.data[s]) = k}

\* a call that reads the table
ReadStep == last'.op \in {"find", "len", "walk", "yield"}

\* htable_find(k) returned p: a slot that holds k and that the probe of k
\* reaches before any EMPTY slot, or nothing when no slot holds k
FindResult(h, k, p) ==
    /\ p # NULL <=> Holding(h, k) # {}
    /\ p # NULL =>
          /\ p \in Holding(h, k)
          /\ Reaches(h, ProbeStart(ht_hashof(h, k), h.shift), 0, p)

\* C30: htable_find, htable_len, htable_walk and htable_yield leave the
\* slot markers, the records, len, cap and shift as they were; and
\* htable_find returns a pointer iff some USED slot has the floored hash of
\* the key as its marker and a record that matches the key, the pointer
\* being to such a slot, reached past TOMB slots and before any EMPTY slot.
C30_ReadOnly ==
    /\ [][ReadStep => ht' = ht /\ amap' = amap]_vars
    /\ [](last.op = "find" => FindResult(ht, last.key, last.ret))

\* htable_find returned the slot of a key behind a tombstone, where the
\* probe of the key starts
C30_Witness ==
    /\ last.op = "find" /\ last.ret # NULL
    /\ ht.table[ProbeStart(ht_hashof(ht, last.key), ht.shift)] = HBUCKET_TOMB

\* the slots of table h that are not EMPTY, and those that are
Taken(h) == {i \in DOMAIN h.table : h.table[i] # HBUCKET_EMPTY}
Free(h) == {i \in DOMAIN h.table : h.table[i] = HBUCKET_EMPTY}

\* C31: in every reachable state of an allocated table cap >= 0 and
\* cap = 3 * size / 4 - (number of USED slots + number of TOMB slots), so
\* that at least size / 4 slots are EMPTY; in a table that is not allocated
\* cap = 0 and len = 0.
C31_Budget ==
    [](/\ ht.alloc =>
             /\ ht.cap >= 0
             /\ ht.cap = (3 * HTABLE_SIZE(ht.shift)) \div 4
                             - Cardinality(Taken(ht))
             /\ 4 * Cardinality(Free(ht)) >= HTABLE_SIZE(ht.shift)
       /\ ~ht.alloc => ht.cap = 0 /\ ht.len = 0)

\* six keys used up the budget of a table of 8 slots and some were
\* deleted: USED and TOMB slots, two EMPTY slots, cap 0
C31_Witness ==
    /\ ht.alloc /\ ht.cap = 0 /\ ht.shift = HTABLE_SHIFT_MIN
    /\ ht.len \in 1 .. 5 /\ Cardinality(Free(ht)) = 2
    /\ \E i \in DOMAIN ht.table : ht.table[i] = HBUCKET_TOMB

\* the records in the USED slots of table h
Records(h) == {h.data[i] : i \in UsedSlots(h)}

\* a call of htable_enter or htable_enter_unsafe that found cap at 0 and
\* whose allocation succeeded
ExhaustedStep ==
    /\ last'.op \in {"enter", "enter_unsafe"} /\ ht.cap = 0
    /\ last'.err \in {0, -EEXIST}

\* the keys the call added: one if it returned 0, none otherwise
Added == ht'.len - ht.len

\* C32: the rehash that htable_enter_unsafe makes when cap = 0 targets the
\* current shift when len <= 3 * size / 8 (the size is unchanged, the
\* records are kept and the tombstones are gone) and the current
\* shift + 1 when len is greater; it never goes further, and it leaves
\* cap >= 1 for the insert that follows.
C32_RehashExact ==
    [][ExhaustedStep =>
        /\ last'.rehashed /\ Added = (IF last'.err = 0 THEN 1 ELSE 0)
        /\ 8 * ht.len <= 3 * HTABLE_SIZE(ht.shift) =>
              ht'.shift = ht.shift /\ DOMAIN ht'.table = DOMAIN ht.table
        /\ 8 * ht.len > 3 * HTABLE_SIZE(ht.shift) => ht'.shift = ht.shift + 1
        /\ \A i \in DOMAIN ht'.table : ht'.table[i] # HBUCKET_TOMB
        /\ Records(ht') = Records(ht) \cup (IF last'.err = 0 THEN {last'.rec}
                                           ELSE {})
        /\ ht'.cap + Added >= 1
        /\ ht'.cap + Added = (3 * HTABLE_SIZE(ht'.shift)) \div 4 - ht.len]_vars

\* five keys were entered and deleted, a new key took the last slot of the
\* budget, and the next one was entered by a rehash that kept the size and
\* the key, and dropped the five tombstones
C32_Witness ==
    /\ pc = "reinsert" /\ nseq = 5 /\ last.op = "enter" /\ last.rehashed
    /\ ht.shift = HTABLE_SHIFT_MIN /\ ht.len = 2 /\ ht.cap = 4

\* the keys that are present among those the last call was made with
LastLive == {k \in Live : k = last.key}

\* a template for key k that differs from the record Root(k) stored for k
\* (for k > 0) and matches k as well
Other(k) == -Root(k)

\* r is the outcome of htable_enter(k, template) in table h, which holds k:
\* the record of k is as it was; the call returned -EEXIST with the slot of
\* that record
Existing(h, k, r) ==
    /\ Lookup(r.ht, k) = Lookup(h, k)
    /\ r.err = -EEXIST
    /\ r.ret = htable_find(r.ht, k) /\ LookupAt(r.ht, r.ret) = Lookup(h, k)

\* C33 as stated: htable_enter(key, template) on a key that is present
\* returns -EEXIST with the pointer to the existing record and leaves the
\* record as it was, even when the template differs from it.
C33_Original ==
    \A k \in LastLive : \A ok \in MallocEnter(ht) :
        Existing(ht, k, htable_enter(ht, k, Other(k), ok))

\* r is the outcome of a call whose allocation failed: -ENOMEM, no pointer
\* and the table as it was
Failed(h, r) == r.err = -ENOMEM /\ r.ret = NULL /\ r.ht = h

\* C33: htable_enter(key, template) on a key that is present never
\* overwrites the record, even when the template differs from it; it
\* returns -EEXIST with the pointer to the existing record, unless cap is 0
\* and the allocation of the rehash fails: then it returns -ENOMEM with no
\* pointer.
C33_NoOverwrite ==
    [](\A k \in LastLive :
          /\ Lookup(ht, k) = {Root(k)}
          /\ Existing(ht, k, htable_enter(ht, k, Other(k), TRUE))
          /\ ht.cap = 0 => Failed(ht, htable_enter(ht, k, Other(k), FALSE)))

\* six keys are present and the budget is used up; entering the last of
\* them, 25, with the template -5 gives -EEXIST from a rehashed table
C33_Witness ==
    /\ ht.alloc /\ ht.cap = 0 /\ ht.len = 6 /\ last.key = 25 /\ 25 \in Live
    /\ htable_enter(ht, 25, Other(25), TRUE).err = -EEXIST
    /\ htable_enter(ht, 25, Other(25), TRUE).rehashed

\* C34: when cap = 0 and the allocation of the rehash fails,
\* htable_enter_unsafe and htable_enter return -ENOMEM and no pointer
\* whether the key is present or not, since the rehash comes before the
\* lookup; the table is as it was and every present key is found where it
\* was.
C34_NoMemory ==
    [](ht.cap = 0 =>
          /\ \A k \in Group1 \cup Group2 :
                /\ Failed(ht, htable_enter_unsafe(ht, k, FALSE))
                /\ Failed(ht, htable_enter(ht, k, Root(k), FALSE))
                /\ ~htable_enter_unsafe(ht, k, FALSE).rehashed
          /\ \A k \in Live :
                /\ Lookup(htable_enter_unsafe(ht, k, FALSE).ht, k) = {Root(k)}
                /\ htable_find(htable_enter_unsafe(ht, k, FALSE).ht, k)
                      = htable_find(ht, k))

\* a key is present among tombstones in a table whose budget is used up,
\* and entering it again with no memory to allocate gives -ENOMEM
C34_Witness ==
    /\ ht.alloc /\ ht.cap = 0 /\ pc = "reinsert"
    /\ \E i \in DOMAIN ht.table : ht.table[i] = HBUCKET_TOMB
    /\ \E k \in Live : htable_enter_unsafe(ht, k, FALSE).err = -ENOMEM

\* r is the outcome of the first htable_enter in a table that was not
\* allocated: a table of 8 slots with one key and a budget of 5
FirstEnter(r) ==
    /\ r.err = 0 /\ r.rehashed /\ r.ht.alloc
    /\ r.ht.shift = HTABLE_SHIFT_MIN /\ DOMAIN r.ht.table = 0 .. 7
    /\ r.ht.len = 1 /\ r.ht.cap = 5
    /\ r.ret \in 0 .. 7 /\ UsedSlots(r.ht) = {r.ret}

\* C35: on a table that is not allocated (just created, or destroyed)
\* htable_find and htable_delete return not-found for every key,
\* htable_walk calls action for no slot, htable_yield returns NULL for
\* every cursor >= 0, none of them changes the table, and the first
\* htable_enter allocates the table of 8 slots, leaving len = 1 and
\* cap = 5.
C35_Unallocated ==
    ~ht.alloc =>
        /\ \A k \in Keys :
              /\ htable_find(ht, k) = NULL
              /\ htable_delete(ht, k) = [ret |-> NULL, ht |-> ht]
              /\ \A entry \in Matching(k) :
                    FirstEnter(htable_enter(ht, k, entry, TRUE))
        /\ htable_walk(ht, 0) = << >>
        /\ HTABLE_FOREACH(ht) = << >>
        /\ \A iter \in 0 .. HTABLE_SIZE(ht.shift) : htable_yield(ht, iter) = NULL
        /\ htable_len(ht) = 0

\* htable_destroy has returned and nothing is allocated: key 4 is not
\* found, and entering it leaves a budget of 5
C35_Witness ==
    /\ ~ht.alloc /\ last.op = "destroy"
    /\ htable_find(ht, 4) = NULL /\ htable_enter(ht, 4, 2, TRUE).ht.cap = 5

\* r is the outcome of htable_delete_unsafe on the USED slot i of table h,
\* and a second call with the same pointer returns -ENOENT and changes
\* nothing
DeletedOnce(h, i, r) ==
    /\ r.err = 0 /\ r.ht.len = h.len - 1 /\ r.ht.table[i] = HBUCKET_TOMB
    /\ htable_delete_unsafe(r.ht, i) = [err |-> -ENOENT, ht |-> r.ht]

\* C36: htable_delete_unsafe called twice with the same pointer succeeds
\* the first time and returns -ENOENT the second time, which leaves len and
\* every marker as they were; htable_delete of an absent key returns
\* not-found and changes nothing; len is never negative.
C36_DeleteTwice ==
    /\ \A i \in UsedSlots(ht) : DeletedOnce(ht, i, htable_delete_unsafe(ht, i))
    /\ \A i \in Pointers(ht) \ UsedSlots(ht) :
          htable_delete_unsafe(ht, i) = [err |-> -ENOENT, ht |-> ht]
    /\ \A k \in Keys \ Live : htable_delete(ht, k) = [ret |-> NULL, ht |-> ht]
    /\ last.op = "delete_unsafe" /\ last.err = -ENOENT => last.key = NULL
    /\ ht.len >= 0

\* a second htable_delete_unsafe with the pointer of a deleted entry has
\* returned -ENOENT, with another key still present
C36_Witness ==
    /\ last.op = "delete_unsafe" /\ last.err = -ENOENT /\ ht.len = 1
    /\ Cardinality(Pointers(ht) \ UsedSlots(ht)) = 1

\* C37 as stated: in every reachable state, the created and the destroyed
\* table included, mask = size - 1 = 2^shift - 1.
C37_Original == ht.mask = Pow2(ht.shift) - 1

\* C37: in every reachable state of an allocated table
\* mask = size - 1 = 2^shift - 1; in the table that is not allocated (just
\* created, or destroyed) mask = -1, while shift is 3 and table is the 8
\* EMPTY buckets of table_empty.
C37_Mask ==
    /\ ht.alloc =>
          /\ ht.mask = Pow2(ht.shift) - 1
          /\ DOMAIN ht.table = 0 .. ht.mask /\ DOMAIN ht.data = 0 .. ht.mask
    /\ ~ht.alloc =>
          /\ ht.mask = -1 /\ ht.shift = 3
          /\ ht.table = [i \in 0 .. 7 |-> HBUCKET_EMPTY]
    /\ htable_destroy(ht).mask = -1

\* a table grown to 16 slots, with mask 15, and its destruction leaves
\* mask at -1
C37_Witness ==
    /\ ht.alloc /\ ht.shift = 4 /\ ht.mask = 15 /\ ht.len >= 1
    /\ htable_destroy(ht).mask = -1

====
